---- MODULE Spec2Model ----
(***************************************************************************)
(* Model of the asset-aware packaging pipeline of web2md:                  *)
(*   src/api/download.ts  (handler, mapLimit, downloadAsset, dedupePath,   *)
(*                         sanitizeSegment, buildRelativeAssetPath, ...)   *)
(*   src/api/lib/tar.ts   (the archive encoder)                            *)
(*                                                                         *)
(* Strings are sequences of characters (a character is a record).  The     *)
(* JavaScript event loop is modelled by one action per I/O event (a fetch  *)
(* settling, a body read settling, a timer firing, an extraction           *)
(* settling): everything the code runs synchronously or in chained         *)
(* microtasks after such an event is part of that action, up to the        *)
(* handler's own continuation, which is split into its loop steps and      *)
(* always runs before the next I/O event.                                  *)
(***************************************************************************)
EXTENDS Integers, Sequences, FiniteSets, TLC

(***************************************************************************)
(* Program constants                                                       *)
(***************************************************************************)
MAX_URLS == 20
ARTICLE_CONCURRENCY == 2
ASSET_CONCURRENCY == 6
MB == 1048576
MAX_ASSET_BYTES == 25 * MB
MAX_TOTAL_ASSET_BYTES == 150 * MB
SEGMENT_MAX == 80
HASH_LEN == 10
DEDUPE_FIRST == 2
DEDUPE_END == 1000

\* a character; a string is a sequence of characters
Ch(x) == [c |-> x]
Str(names) == [i \in 1..Len(names) |-> Ch(names[i])]

\* null / undefined, where an object is expected and where a string is expected
None == [null |-> TRUE]
NoStr == <<[null |-> TRUE]>>

(***************************************************************************)
(* String helpers (JavaScript String methods on sequences of characters)   *)
(***************************************************************************)
Min(a, b) == IF a < b THEN a ELSE b
Max(a, b) == IF a > b THEN a ELSE b

\* s.slice(0, n)
Take(s, n) == SubSeq(s, 1, Min(n, Len(s)))
\* s.slice(n)   (n is a 0-based JavaScript index)
Drop(s, n) == SubSeq(s, n + 1, Len(s))

\* s.indexOf(c) + 1: the 1-based position of the first c, 0 when there is none
IndexOf(s, c) ==
  IF \E i \in 1..Len(s) : s[i] = c
  THEN CHOOSE i \in 1..Len(s) : s[i] = c /\ \A j \in 1..(i - 1) : s[j] # c
  ELSE 0

\* s.lastIndexOf(c) + 1
LastIndexOf(s, c) ==
  IF \E i \in 1..Len(s) : s[i] = c
  THEN CHOOSE i \in 1..Len(s) : s[i] = c /\ \A j \in (i + 1)..Len(s) : s[j] # c
  ELSE 0

\* the 1-based position of the first character of s that is in set cs, else Len(s)+1
FirstOf(s, cs) ==
  IF \E i \in 1..Len(s) : s[i] \in cs
  THEN CHOOSE i \in 1..Len(s) : s[i] \in cs /\ \A j \in 1..(i - 1) : s[j] \notin cs
  ELSE Len(s) + 1

\* t.startsWith(s, i-1)
StartsWithAt(t, s, i) ==
  /\ i + Len(s) - 1 <= Len(t)
  /\ \A k \in 1..Len(s) : t[i + k - 1] = s[k]

\* t.includes(s)
Includes(t, s) == \E i \in 1..(Len(t) + 1) : StartsWithAt(t, s, i)

RECURSIVE SplitChar(_, _)
\* s.split(c) for a one-character separator
SplitChar(s, c) ==
  LET i == IndexOf(s, c)
  IN  IF i = 0 THEN <<s>>
      ELSE <<SubSeq(s, 1, i - 1)>> \o SplitChar(Drop(s, i), c)

RECURSIVE Join(_, _)
\* parts.join(sep)
Join(parts, sep) ==
  IF Len(parts) = 0 THEN <<>>
  ELSE IF Len(parts) = 1 THEN parts[1]
  ELSE parts[1] \o sep \o Join(Tail(parts), sep)

\* parts.filter(Boolean): drops the empty strings
FilterNonEmpty(parts) == SelectSeq(parts, LAMBDA p : Len(p) > 0)

RECURSIVE SplitStr(_, _)
\* text.split(search) for a non-empty search string
SplitStr(text, search) ==
  IF \E i \in 1..Len(text) : StartsWithAt(text, search, i)
  THEN LET i == CHOOSE k \in 1..Len(text) :
                  /\ StartsWithAt(text, search, k)
                  /\ \A j \in 1..(k - 1) : ~StartsWithAt(text, search, j)
       IN  <<SubSeq(text, 1, i - 1)>> \o SplitStr(Drop(text, i - 1 + Len(search)), search)
  ELSE <<text>>

\* download.ts replaceAll
replaceAll(text, search, replacement) ==
  IF Len(search) = 0 THEN text
  ELSE Join(SplitStr(text, search), replacement)

Digit(d) == Ch(CASE d = 0 -> "0" [] d = 1 -> "1" [] d = 2 -> "2" [] d = 3 -> "3"
                 [] d = 4 -> "4" [] d = 5 -> "5" [] d = 6 -> "6" [] d = 7 -> "7"
                 [] d = 8 -> "8" [] d = 9 -> "9")

RECURSIVE NumStr(_)
\* String(n) for n >= 0
NumStr(n) == IF n < 10 THEN <<Digit(n)>> ELSE NumStr(n \div 10) \o <<Digit(n % 10)>>

RECURSIVE PadStart(_, _, _)
\* s.padStart(n, c)
PadStart(s, n, c) == IF Len(s) >= n THEN s ELSE PadStart(<<c>> \o s, n, c)

(***************************************************************************)
(* shortHash: the first 10 hex digits of SHA-256.  The digest is modelled  *)
(* as collision free: ten characters that name the hashed input.           *)
(***************************************************************************)
shortHash(input) == [i \in 1..HASH_LEN |-> [c |-> "hex", sha256 |-> input, digit |-> i]]

(***************************************************************************)
(* Path sanitizer                                                          *)
(***************************************************************************)
NulChar == Ch("NUL")
UnsafeChars == {Ch("\\"), Ch("/"), Ch(":"), Ch("*"), Ch("?"), Ch("\""), Ch("<"), Ch(">"), Ch("|")}
\* the characters matched by the regular expression class \s that the model uses
WhitespaceChars == {Ch(" "), Ch("\t"), Ch("\n"), Ch("\r")}

\* s.replace(/\s+/g, ' '): of every run of whitespace the first character is kept,
\* as a space
CollapseWhitespace(s) ==
  LET kept == SelectSeq([i \in 1..Len(s) |-> i],
                        LAMBDA i : \/ s[i] \notin WhitespaceChars
                                   \/ i = 1
                                   \/ s[i - 1] \notin WhitespaceChars)
  IN  [k \in 1..Len(kept) |-> IF s[kept[k]] \in WhitespaceChars THEN Ch(" ") ELSE s[kept[k]]]

\* s.trim()
Trim(s) ==
  LET keep == {i \in 1..Len(s) : s[i] \notin WhitespaceChars}
  IN  IF keep = {} THEN <<>>
      ELSE SubSeq(s, CHOOSE i \in keep : \A j \in keep : i <= j,
                     CHOOSE i \in keep : \A j \in keep : i >= j)

\* a faulty variant: the result is not cut to 80 characters
sanitizeSegmentUncut(input) ==
  LET noNul   == SelectSeq(input, LAMBDA ch : ch # NulChar)
      safe    == [i \in 1..Len(noNul) |-> IF noNul[i] \in UnsafeChars THEN Ch("_") ELSE noNul[i]]
  IN  Trim(CollapseWhitespace(safe))

sanitizeSegment(input) ==
  LET noNul   == SelectSeq(input, LAMBDA ch : ch # NulChar)
      safe    == [i \in 1..Len(noNul) |-> IF noNul[i] \in UnsafeChars THEN Ch("_") ELSE noNul[i]]
  IN  Take(Trim(CollapseWhitespace(safe)), SEGMENT_MAX)

sanitizePath(input) ==
  LET slashed == [i \in 1..Len(input) |-> IF input[i] = Ch("\\") THEN Ch("/") ELSE input[i]]
      parts   == FilterNonEmpty(SplitChar(slashed, Ch("/")))
      clean   == FilterNonEmpty([i \in 1..Len(parts) |-> sanitizeSegment(parts[i])])
  IN  Join(clean, Str(<<"/">>))

(***************************************************************************)
(* new URL(u): the parts of an absolute URL scheme://host[:port]/path?q#f  *)
(***************************************************************************)
UrlAfterScheme(u) == Drop(u, IndexOf(u, Ch(":")) + 2)
UrlAuthority(u) ==
  LET r == UrlAfterScheme(u)
  IN  SubSeq(r, 1, FirstOf(r, {Ch("/"), Ch("?"), Ch("#")}) - 1)
UrlHostname(u) ==
  LET a == UrlAuthority(u)
  IN  SubSeq(a, 1, FirstOf(a, {Ch(":")}) - 1)
UrlPathname(u) ==
  LET r    == UrlAfterScheme(u)
      rest == Drop(r, Len(UrlAuthority(u)))
      p    == SubSeq(rest, 1, FirstOf(rest, {Ch("?"), Ch("#")}) - 1)
  IN  IF Len(p) = 0 THEN Str(<<"/">>) ELSE p
UrlProtocol(u) == SubSeq(u, 1, IndexOf(u, Ch(":")))

\* a string new URL() accepts: scheme, "://", a non-empty host
IsUrl(u) ==
  LET i == IndexOf(u, Ch(":"))
  IN  /\ i > 1
      /\ StartsWithAt(u, Str(<<":", "/", "/">>), i)
      /\ Len(UrlHostname(u)) > 0

\* a faulty variant: the folder is named after the title or host alone
safeArticleFolderUnnumbered(url, title, index) ==
  LET t == sanitizeSegment(IF title = NoStr THEN <<>> ELSE title)
      h == sanitizeSegment(UrlHostname(url))
  IN  IF Len(t) > 0 THEN t ELSE h

safeArticleFolder(url, title, index) ==
  LET prefix == PadStart(NumStr(index + 1), 3, Ch("0"))
      t      == sanitizeSegment(IF title = NoStr THEN <<>> ELSE title)
      h      == sanitizeSegment(UrlHostname(url))
      base   == IF Len(t) > 0 THEN t
                ELSE IF Len(h) > 0 THEN h
                ELSE Str(<<"a","r","t","i","c","l","e","_">>) \o prefix
  IN  prefix \o Str(<<"_">>) \o base

(***************************************************************************)
(* Response headers.  A content type is modelled by its media type (the    *)
(* part before ';', trimmed and lower-cased); a Content-Disposition header *)
(* by the filename parameter its regular expressions capture.              *)
(***************************************************************************)
guessExtFromContentType(contentType) ==
  CASE contentType = "image/jpeg"                -> Str(<<".", "j", "p", "g">>)
    [] contentType = "image/jpg"                 -> Str(<<".", "j", "p", "g">>)
    [] contentType = "image/png"                 -> Str(<<".", "p", "n", "g">>)
    [] contentType = "image/gif"                 -> Str(<<".", "g", "i", "f">>)
    [] contentType = "image/webp"                -> Str(<<".", "w", "e", "b", "p">>)
    [] contentType = "image/svg+xml"             -> Str(<<".", "s", "v", "g">>)
    [] contentType = "application/pdf"           -> Str(<<".", "p", "d", "f">>)
    [] contentType = "application/zip"           -> Str(<<".", "z", "i", "p">>)
    [] contentType = "application/x-zip-compressed" -> Str(<<".", "z", "i", "p">>)
    [] contentType = "application/x-rar-compressed" -> Str(<<".", "r", "a", "r">>)
    [] contentType = "application/msword"        -> Str(<<".", "d", "o", "c">>)
    [] contentType = "application/vnd.openxmlformats-officedocument.wordprocessingml.document"
                                                 -> Str(<<".", "d", "o", "c", "x">>)
    [] contentType = "application/vnd.ms-powerpoint" -> Str(<<".", "p", "p", "t">>)
    [] contentType = "application/vnd.openxmlformats-officedocument.presentationml.presentation"
                                                 -> Str(<<".", "p", "p", "t", "x">>)
    [] contentType = "application/vnd.ms-excel"  -> Str(<<".", "x", "l", "s">>)
    [] contentType = "application/vnd.openxmlformats-officedocument.spreadsheetml.sheet"
                                                 -> Str(<<".", "x", "l", "s", "x">>)
    [] contentType = "text/plain"                -> Str(<<".", "t", "x", "t">>)
    [] contentType = "text/markdown"             -> Str(<<".", "m", "d">>)
    [] contentType = "text/csv"                  -> Str(<<".", "c", "s", "v">>)
    [] contentType = "application/json"          -> Str(<<".", "j", "s", "o", "n">>)
    [] OTHER                                     -> <<>>

\* null when the header is absent, else the captured filename, trimmed
parseFilenameFromContentDisposition(contentDisposition) ==
  IF contentDisposition = NoStr THEN NoStr ELSE Trim(contentDisposition)

(***************************************************************************)
(* Deduper                                                                 *)
(***************************************************************************)
\* path.slice(0, idx) and path.slice(idx) at the last '.' of the whole path
DedupeBase(path) ==
  LET idx == LastIndexOf(path, Ch(".")) IN IF idx > 0 THEN SubSeq(path, 1, idx - 1) ELSE path
DedupeExt(path) ==
  LET idx == LastIndexOf(path, Ch(".")) IN IF idx > 0 THEN Drop(path, idx - 1) ELSE <<>>

\* `${base}_${i}${ext}`
DedupeCandidate(path, i) == DedupeBase(path) \o Str(<<"_">>) \o NumStr(i) \o DedupeExt(path)
\* `${base}_${shortHash(path)}${ext}`
DedupeFallback(path) == DedupeBase(path) \o Str(<<"_">>) \o shortHash(path) \o DedupeExt(path)

\* the value dedupePath returns when its loop runs `for (i = 2; i < end; i++)`;
\* the caller's set becomes used \cup {that value}
dedupePathUpTo(path, used, end) ==
  IF path \notin used THEN path
  ELSE LET base    == DedupeBase(path) \o Str(<<"_">>)
           ext     == DedupeExt(path)
           free    == {i \in DEDUPE_FIRST..(end - 1) : (base \o NumStr(i) \o ext) \notin used}
       IN  IF free # {}
           THEN DedupeCandidate(path, CHOOSE i \in free : \A j \in free : i <= j)
           ELSE DedupeFallback(path)

\* The handler's runs are explored with the loop cut short: a page would need a
\* thousand colliding assets to exhaust the 998 numeric suffixes of line 108.
MaxDedupe == 3
DedupeEnd == Min(DEDUPE_END, MaxDedupe)

\* a faulty variant: the set is not consulted
dedupePathUnchecked(path, used) == path

dedupePath(path, used) == dedupePathUpTo(path, used, DedupeEnd)

(***************************************************************************)
(* Asset paths                                                             *)
(***************************************************************************)
KindName(kind) == IF kind = "images" THEN Str(<<"i", "m", "a", "g", "e", "s">>)
                  ELSE Str(<<"f", "i", "l", "e", "s">>)

\* `${kind}_${shortHash(assetUrl)}`
KindHashName(assetUrl, kind) == KindName(kind) \o Str(<<"_">>) \o shortHash(assetUrl)

buildRelativeAssetPath(assetUrl, kind, filename) ==
  LET h            == sanitizeSegment(UrlHostname(assetUrl))
      host         == IF Len(h) > 0 THEN h ELSE Str(<<"h", "o", "s", "t">>)
      segs         == SplitChar(UrlPathname(assetUrl), Ch("/"))
      dir          == sanitizePath(Join(SubSeq(segs, 1, Len(segs) - 1), Str(<<"/">>)))
      f            == sanitizeSegment(filename)
      safeFilename == IF Len(f) > 0 THEN f ELSE KindHashName(assetUrl, kind)
      base         == IF Len(dir) > 0 THEN dir \o Str(<<"/">>) \o safeFilename ELSE safeFilename
  IN  Str(<<"a", "s", "s", "e", "t", "s", "/">>) \o KindName(kind) \o Str(<<"/">>)
        \o host \o Str(<<"/">>) \o base

\* the last non-empty segment of the URL's pathname ('' when there is none)
UrlName(assetUrl) ==
  LET segs == FilterNonEmpty(SplitChar(UrlPathname(assetUrl), Ch("/")))
  IN  IF Len(segs) = 0 THEN <<>> ELSE segs[Len(segs)]

\* filename += `__${shortHash(assetUrl)}` before the extension, for a URL with '?'
QueryHashed(assetUrl, filename) ==
  IF IndexOf(assetUrl, Ch("?")) = 0 THEN filename
  ELSE LET idx  == LastIndexOf(filename, Ch("."))
           base == IF idx > 0 THEN SubSeq(filename, 1, idx - 1) ELSE filename
           ext  == IF idx > 0 THEN Drop(filename, idx - 1) ELSE <<>>
       IN  base \o Str(<<"_", "_">>) \o shortHash(assetUrl) \o ext

\* downloadAsset, lines 178-205: the path of an accepted asset before deduplication
AssetPath(assetUrl, kind, contentType, cd) ==
  LET parsed == parseFilenameFromContentDisposition(cd)
      first  == IF parsed # NoStr /\ Len(parsed) > 0 THEN parsed
                ELSE IF Len(UrlName(assetUrl)) > 0 THEN UrlName(assetUrl)
                ELSE KindHashName(assetUrl, kind)
      s      == sanitizeSegment(first)
      named  == IF Len(s) > 0 THEN s ELSE KindHashName(assetUrl, kind)
      ext    == guessExtFromContentType(contentType)
      full   == IF LastIndexOf(named, Ch(".")) = 0 THEN named \o ext ELSE named
  IN  buildRelativeAssetPath(assetUrl, kind, QueryHashed(assetUrl, full))

(***************************************************************************)
(* mapLimit: a pool of Math.max(1, limit) workers over a shared cursor.    *)
(* A pool is a record                                                      *)
(*   n       items.length                                                  *)
(*   cursor  the shared cursor                                             *)
(*   st      per item: "todo", "running" (fn called, promise pending),     *)
(*           "done" (fn fulfilled) or "failed" (fn rejected)               *)
(*   calls   per item: how many times fn was called on it                  *)
(*   live    workers whose async function has not returned or thrown       *)
(*   settled the promise mapLimit returned: "pending", "fulfilled" or      *)
(*           "rejected"                                                    *)
(***************************************************************************)
\* a faulty variant: one worker too many
MLWorkersOneMore(limit) == Max(1, limit) + 1

\* Array.from({ length: Math.max(1, limit) }, ...)
MLWorkers(limit) == Max(1, limit)

\* a faulty variant: the cursor is read and not advanced
MLAdvanceStuck(cursor) == cursor

\* cursor++ leaves the cursor at
MLAdvance(cursor) == cursor + 1

RECURSIVE MLStartWorkers(_, _)
\* the synchronous start of w workers, one after the other: each runs
\* `index = cursor++`, leaves if index >= n, else calls fn and awaits it
MLStartWorkers(pool, w) ==
  IF w = 0 THEN pool
  ELSE LET index == pool.cursor + 1   \* 1-based position of items[cursor]
           next  == [pool EXCEPT !.cursor = MLAdvance(pool.cursor)]
       IN  IF index > pool.n
           THEN MLStartWorkers([next EXCEPT !.live = @ - 1], w - 1)
           ELSE MLStartWorkers([next EXCEPT !.st[index] = "running",
                                            !.calls[index] = @ + 1], w - 1)

\* Promise.all(workers) once no worker is left
MLResolve(pool) ==
  IF pool.live = 0 /\ pool.settled = "pending"
  THEN [pool EXCEPT !.settled = "fulfilled"] ELSE pool

\* mapLimit(items, limit, fn) up to its await
MLNew(n, limit) ==
  MLResolve(MLStartWorkers(
    [n |-> n, cursor |-> 0, st |-> [i \in 1..n |-> "todo"], calls |-> [i \in 1..n |-> 0],
     live |-> MLWorkers(limit), settled |-> "pending"], MLWorkers(limit)))

\* a faulty variant: the worker calls fn on the same item once more (a retry)
\* before it stores the result and takes the next index
MLFulfilRetry(pool, i) ==
  IF pool.calls[i] < 2 THEN [pool EXCEPT !.calls[i] = @ + 1]
  ELSE LET index == pool.cursor + 1
           next  == [pool EXCEPT !.st[i] = "done", !.cursor = MLAdvance(pool.cursor)]
       IN  IF index > pool.n
           THEN MLResolve([next EXCEPT !.live = @ - 1])
           ELSE [next EXCEPT !.st[index] = "running", !.calls[index] = @ + 1]

\* fn(items[i]) fulfilled: its worker stores the result and takes the next index
MLFulfil(pool, i) ==
  LET index == pool.cursor + 1
      next  == [pool EXCEPT !.st[i] = "done", !.cursor = MLAdvance(pool.cursor)]
  IN  IF index > pool.n
      THEN MLResolve([next EXCEPT !.live = @ - 1])
      ELSE [next EXCEPT !.st[index] = "running", !.calls[index] = @ + 1]

\* fn(items[i]) rejected: its worker throws, and Promise.all rejects
MLReject(pool, i) ==
  [pool EXCEPT !.st[i] = "failed", !.live = @ - 1,
               !.settled = IF @ = "pending" THEN "rejected" ELSE @]

\* the items fn is called on by a step from pool p to pool q
MLStarted(p, q) == {i \in 1..q.n : q.calls[i] > (IF p = None THEN 0 ELSE p.calls[i])}
MLRunning(pool) == IF pool = None THEN {} ELSE {i \in 1..pool.n : pool.st[i] = "running"}

(***************************************************************************)
(* The packaging handler                                                   *)
(***************************************************************************)
VARIABLES
  urls,           \* body.urls
  options,        \* [downloadImages, downloadFiles]
  site,           \* the extractor's answer for each URL (the outside world)
  pc,             \* where the handler stands: "validate", "extracting", "jobs",
                  \* "assets", "finishJob", "done"
  status,         \* the HTTP status sent, 0 while no response was sent
  articlePool,    \* mapLimit(urls, ARTICLE_CONCURRENCY, ...)
  articleResults, \* its results array
  jobIdx,         \* position of the for loop over articleResults (1-based)
  folder,         \* of the job whose assets are awaited
  markdown,       \* of the job whose assets are awaited
  usedPaths,      \* of the job whose assets are awaited
  assetItems,     \* the items of the job's asset mapLimit, with each fetch's state
  assetPool,      \* mapLimit(items, ASSET_CONCURRENCY, ...)
  totalBytes,     \* totalAssets.bytes
  tarEntries,
  manifest,
  archives,       \* the entry lists handed to createTarGz, in call order
  netLog,         \* every fetch(assetUrl) issued, in order: [job, kind, url]
  budgetOmitted,  \* how many bodies line 175 turned down (history)
  trial           \* the function under test and its inputs, in the specifications
                  \* that apply one function of the program on its own

vars == <<urls, options, site, pc, status, articlePool, articleResults, jobIdx, folder,
          markdown, usedPaths, assetItems, assetPool, totalBytes, tarEntries, manifest,
          archives, netLog, budgetOmitted, trial>>

\* `# title`, the source line, a rule and the content, joined by '\n', trimmed, plus
\* '\n'. The label of the source line is written in ASCII here; the pages of the
\* model have no author and no date, so lines 237-238 add nothing.
buildArticleMarkdown(result) ==
  LET head == IF result.title = NoStr \/ Len(result.title) = 0 THEN <<>>
              ELSE <<Str(<<"#", " ">>) \o result.title>>
      lines == head \o <<Str(<<"*", "*", "s", "r", "c", "*", "*", ":", " ">>) \o result.url,
                         <<>>, Str(<<"-", "-", "-">>), <<>>, result.content>>
  IN  Trim(Join(lines, Str(<<"\n">>))) \o Str(<<"\n">>)

\* a faulty variant: the options are ignored
pickAssetsAll(assets, opts) == assets

pickAssets(assets, opts) ==
  [images |-> IF opts.downloadImages THEN assets.images ELSE <<>>,
   files  |-> IF opts.downloadFiles THEN assets.files ELSE <<>>]

\* a faulty variant: the number of URLs is not limited
ValidRequestUnlimited(us) ==
  /\ Len(us) > 0
  /\ \A i \in 1..Len(us) :
       /\ IsUrl(us[i])
       /\ UrlProtocol(us[i]) \in {Str(<<"h", "t", "t", "p", ":">>),
                                  Str(<<"h", "t", "t", "p", "s", ":">>)}

\* lines 276-290: the request passes validation
ValidRequest(us) ==
  /\ Len(us) > 0
  /\ Len(us) <= MAX_URLS
  /\ \A i \in 1..Len(us) :
       /\ IsUrl(us[i])
       /\ UrlProtocol(us[i]) \in {Str(<<"h", "t", "t", "p", ":">>),
                                  Str(<<"h", "t", "t", "p", "s", ":">>)}

\* the state of an item of the asset pool before fn is called on it
NewItem(kind, url) ==
  [kind |-> kind, url |-> url, st |-> "todo", timer |-> FALSE,
   contentType |-> "", cd |-> NoStr, result |-> None]

\* downloadAsset up to `await fetch(...)`: the timer is armed, the request issued
IssueFetch(item) == [item EXCEPT !.st = "fetching", !.timer = TRUE]

\* the items after the pool went from p to q: fn was called on the newly claimed ones
StartClaimed(items, p, q) ==
  [i \in 1..Len(items) |-> IF i \in MLStarted(p, q) THEN IssueFetch(items[i]) ELSE items[i]]

RECURSIVE LogClaimed(_, _, _, _)
\* netLog after the fetches of the newly claimed items, in index order
LogClaimed(log, items, claimed, job) ==
  IF claimed = {} THEN log
  ELSE LET i == CHOOSE k \in claimed : \A j \in claimed : k <= j
       IN  LogClaimed(Append(log, [job |-> job, kind |-> items[i].kind, url |-> items[i].url]),
                      items, claimed \ {i}, job)

InitWith(Requests, OptionSets, Sites) ==
  /\ urls \in Requests
  /\ options \in OptionSets
  /\ site \in Sites
  /\ pc = "validate"
  /\ status = 0
  /\ articlePool = None
  /\ articleResults = <<>>
  /\ jobIdx = 0
  /\ folder = NoStr
  /\ markdown = NoStr
  /\ usedPaths = {}
  /\ assetItems = <<>>
  /\ assetPool = None
  /\ totalBytes = 0
  /\ tarEntries = <<>>
  /\ manifest = None
  /\ archives = <<>>
  /\ netLog = <<>>
  /\ budgetOmitted = 0
  /\ trial = None

\* lines 268-302: validation, then the article pool is started
Validate ==
  /\ pc = "validate"
  /\ IF ~ValidRequest(urls)
     THEN /\ pc' = "done"
          /\ status' = 400
          /\ UNCHANGED <<articlePool, articleResults, manifest>>
     ELSE /\ pc' = "extracting"
          /\ manifest' = [total |-> Len(urls), success |-> 0, failed |-> 0, results |-> <<>>]
          /\ articlePool' = MLNew(Len(urls), ARTICLE_CONCURRENCY)
          /\ articleResults' = [i \in 1..Len(urls) |-> None]
          /\ UNCHANGED status
  /\ UNCHANGED <<urls, options, site, jobIdx, folder, markdown, usedPaths, assetItems,
                 assetPool, totalBytes, tarEntries, archives, netLog>>
  /\ UNCHANGED <<budgetOmitted, trial>>

\* lines 296-302: extractArticleWithAssets(urls[i]) settles (it never rejects)
ExtractionSettles(i) ==
  /\ pc = "extracting"
  /\ i \in MLRunning(articlePool)
  /\ articleResults' = [articleResults EXCEPT ![i] =
        IF site[urls[i]].ok
        THEN [url |-> urls[i], index |-> i - 1, ok |-> TRUE, extracted |-> site[urls[i]]]
        ELSE [url |-> urls[i], index |-> i - 1, ok |-> FALSE, error |-> site[urls[i]].error]]
  /\ articlePool' = MLFulfil(articlePool, i)
  /\ IF articlePool'.settled = "fulfilled"
     THEN pc' = "jobs" /\ jobIdx' = 1
     ELSE UNCHANGED <<pc, jobIdx>>
  /\ UNCHANGED <<urls, options, site, status, folder, markdown, usedPaths, assetItems,
                 assetPool, totalBytes, tarEntries, manifest, archives, netLog>>
  /\ UNCHANGED <<budgetOmitted, trial>>

\* a faulty variant: the failed job is counted among the successes
RecordFailedAsSuccess(m, record) ==
  [m EXCEPT !.success = @ + 1, !.results = Append(@, record)]

\* lines 310-311: manifest.failed += 1; manifest.results.push(record)
RecordFailed(m, record) ==
  [m EXCEPT !.failed = @ + 1, !.results = Append(@, record)]

\* lines 343-351: manifest.success += 1; manifest.results.push(record)
RecordSucceeded(m, record) ==
  [m EXCEPT !.success = @ + 1, !.results = Append(@, record)]

\* lines 306-313: the job's extraction failed
JobFailed ==
  /\ pc = "jobs"
  /\ jobIdx <= Len(articleResults)
  /\ ~articleResults[jobIdx].ok
  /\ LET item == articleResults[jobIdx]
         f    == safeArticleFolder(item.url, NoStr, item.index)
     IN  /\ tarEntries' = Append(tarEntries,
              [path |-> f \o Str(<<"/", "e", "r", "r", "o", "r", ".", "m", "d">>),
               content |-> [type |-> "error.md", url |-> item.url, error |-> item.error]])
         /\ manifest' = RecordFailed(manifest, [url |-> item.url, folder |-> f, ok |-> FALSE,
                                                error |-> item.error])
  /\ jobIdx' = jobIdx + 1
  /\ UNCHANGED <<urls, options, site, pc, status, articlePool, articleResults, folder,
                 markdown, usedPaths, assetItems, assetPool, totalBytes, archives, netLog>>
  /\ UNCHANGED <<budgetOmitted, trial>>

\* lines 315-329: the job's extraction succeeded; its asset pool is started
JobStarts ==
  /\ pc = "jobs"
  /\ jobIdx <= Len(articleResults)
  /\ articleResults[jobIdx].ok
  /\ LET item   == articleResults[jobIdx]
         picked == pickAssets(item.extracted.assets, options)
         items  == [i \in 1..Len(picked.images) |-> NewItem("images", picked.images[i])]
                   \o [i \in 1..Len(picked.files) |-> NewItem("files", picked.files[i])]
         pool   == MLNew(Len(items), ASSET_CONCURRENCY)
     IN  /\ folder' = safeArticleFolder(item.url, item.extracted.result.title, item.index)
         /\ markdown' = buildArticleMarkdown(item.extracted.result)
         /\ usedPaths' = {}
         /\ assetPool' = pool
         /\ assetItems' = StartClaimed(items, None, pool)
         /\ netLog' = LogClaimed(netLog, items, MLStarted(None, pool), jobIdx)
         /\ pc' = IF pool.settled = "fulfilled" THEN "finishJob" ELSE "assets"
  /\ UNCHANGED <<urls, options, site, status, articlePool, articleResults, jobIdx,
                 totalBytes, tarEntries, manifest, archives>>
  /\ UNCHANGED <<budgetOmitted, trial>>

\* a faulty variant: the counter is compared without the asset's size
FitsBudgetBefore(total, len) == total <= MAX_TOTAL_ASSET_BYTES

\* line 175: the asset fits the run's byte budget
FitsBudget(total, len) == total + len <= MAX_TOTAL_ASSET_BYTES

\* lines 173-175: downloadAsset keeps a body of len bytes
BodyAccepted(total, len) ==
  /\ len # 0
  /\ len <= MAX_ASSET_BYTES
  /\ FitsBudget(total, len)

\* lines 161-169: downloadAsset goes on to read the body of this response
ResponseAccepted(kind, resp) ==
  /\ resp.ok
  /\ ~(kind = "files" /\ resp.contentType = "text/html")

\* a faulty variant: the handler goes on to the job's entries, and then to the next
\* job, as soon as one downloadAsset call has returned
AssetSettlesEager(i, item, rejected) ==
  LET items == [assetItems EXCEPT ![i] = item]
      pool  == IF rejected THEN MLReject(assetPool, i) ELSE MLFulfil(assetPool, i)
  IN  /\ assetPool' = pool
      /\ assetItems' = StartClaimed(items, assetPool, pool)
      /\ netLog' = LogClaimed(netLog, items, MLStarted(assetPool, pool), jobIdx)
      /\ IF pc = "assets" /\ pool.settled # "rejected"
         THEN pc' = "finishJob" /\ UNCHANGED status
         ELSE IF pc = "assets" /\ pool.settled = "rejected"
         THEN pc' = "done" /\ status' = 400
         ELSE UNCHANGED <<pc, status>>

\* item i of the asset pool has settled: its worker goes on (or throws), the newly
\* claimed fetch is issued, and the handler, if it awaits this pool, is resumed
AssetSettles(i, item, rejected) ==
  LET items == [assetItems EXCEPT ![i] = item]
      pool  == IF rejected THEN MLReject(assetPool, i) ELSE MLFulfil(assetPool, i)
  IN  /\ assetPool' = pool
      /\ assetItems' = StartClaimed(items, assetPool, pool)
      /\ netLog' = LogClaimed(netLog, items, MLStarted(assetPool, pool), jobIdx)
      /\ IF pc = "assets" /\ pool.settled = "fulfilled"
         THEN pc' = "finishJob" /\ UNCHANGED status
         ELSE IF pc = "assets" /\ pool.settled = "rejected"
         THEN pc' = "done" /\ status' = 400      \* lines 364-366: the handler's catch
         ELSE UNCHANGED <<pc, status>>

\* the item after downloadAsset returned null
Nulled(item) == [item EXCEPT !.st = "done", !.timer = FALSE, !.contentType = "",
                             !.cd = NoStr, !.result = None]

\* lines 144-169: fetch(assetUrl) resolves with a response
FetchResolves(i, resp) ==
  /\ i \in 1..Len(assetItems)
  /\ assetItems[i].st = "fetching"
  /\ IF ResponseAccepted(assetItems[i].kind, resp)
     THEN /\ assetItems' = [assetItems EXCEPT ![i] =
               [@ EXCEPT !.st = "reading", !.timer = FALSE,
                         !.contentType = resp.contentType, !.cd = resp.cd]]
          /\ UNCHANGED <<assetPool, netLog, pc, status>>
     ELSE AssetSettles(i, Nulled(assetItems[i]), FALSE)
  /\ UNCHANGED <<urls, options, site, articlePool, articleResults, jobIdx, folder,
                 markdown, usedPaths, totalBytes, tarEntries, manifest, archives>>
  /\ UNCHANGED <<budgetOmitted, trial>>

\* lines 157-159: fetch(assetUrl) rejects (no connection)
FetchRejects(i) ==
  /\ i \in 1..Len(assetItems)
  /\ assetItems[i].st = "fetching"
  /\ AssetSettles(i, Nulled(assetItems[i]), FALSE)
  /\ UNCHANGED <<urls, options, site, articlePool, articleResults, jobIdx, folder,
                 markdown, usedPaths, totalBytes, tarEntries, manifest, archives>>
  /\ UNCHANGED <<budgetOmitted, trial>>

\* line 142: the 20 s timer fires while it is armed; the aborted fetch rejects
TimerFires(i) ==
  /\ i \in 1..Len(assetItems)
  /\ assetItems[i].timer
  /\ assetItems[i].st = "fetching"
  /\ AssetSettles(i, Nulled(assetItems[i]), FALSE)
  /\ UNCHANGED <<urls, options, site, articlePool, articleResults, jobIdx, folder,
                 markdown, usedPaths, totalBytes, tarEntries, manifest, archives>>
  /\ UNCHANGED <<budgetOmitted, trial>>

\* lines 171-208: response.arrayBuffer() resolves with len bytes
BodyResolves(i, len) ==
  /\ i \in 1..Len(assetItems)
  /\ assetItems[i].st = "reading"
  /\ LET item == assetItems[i]
         path == dedupePath(AssetPath(item.url, item.kind, item.contentType, item.cd),
                            usedPaths)
     IN  IF BodyAccepted(totalBytes, len)
         THEN /\ totalBytes' = totalBytes + len
              /\ usedPaths' = usedPaths \cup {path}
              /\ AssetSettles(i, [Nulled(item) EXCEPT !.result =
                    [originalUrl |-> item.url, relativePath |-> path,
                     content |-> [type |-> "bytes", of |-> item.url, length |-> len]]], FALSE)
         ELSE /\ AssetSettles(i, Nulled(item), FALSE)
              /\ UNCHANGED <<totalBytes, usedPaths>>
  /\ budgetOmitted' = IF len # 0 /\ len <= MAX_ASSET_BYTES /\ ~FitsBudget(totalBytes, len)
                      THEN budgetOmitted + 1 ELSE budgetOmitted
  /\ UNCHANGED trial
  /\ UNCHANGED <<urls, options, site, articlePool, articleResults, jobIdx, folder,
                 markdown, tarEntries, manifest, archives>>

\* line 171: response.arrayBuffer() rejects (the connection breaks while the body
\* is read, or the runtime gives up an idle body); nothing in downloadAsset catches it
BodyRejects(i) ==
  /\ i \in 1..Len(assetItems)
  /\ assetItems[i].st \in {"reading", "stalled"}
  /\ AssetSettles(i, [Nulled(assetItems[i]) EXCEPT !.st = "threw"], TRUE)
  /\ UNCHANGED <<urls, options, site, articlePool, articleResults, jobIdx, folder,
                 markdown, usedPaths, totalBytes, tarEntries, manifest, archives>>
  /\ UNCHANGED <<budgetOmitted, trial>>

\* line 171: the server stops sending and keeps the connection open; the timer
\* was cleared at line 155, so nothing downloadAsset set up will end this read
BodyStalls(i) ==
  /\ i \in 1..Len(assetItems)
  /\ assetItems[i].st = "reading"
  /\ assetItems' = [assetItems EXCEPT ![i].st = "stalled"]
  /\ UNCHANGED <<urls, options, site, pc, status, articlePool, articleResults, jobIdx,
                 folder, markdown, usedPaths, assetPool, totalBytes, tarEntries, manifest,
                 archives, netLog>>
  /\ UNCHANGED <<budgetOmitted, trial>>

\* downloaded.filter(Boolean)
OkAssets(items) ==
  LET kept == SelectSeq(items, LAMBDA it : it.result # None)
  IN  [i \in 1..Len(kept) |-> kept[i].result]

RECURSIVE RewriteAll(_, _)
\* lines 332-333: the text after the replaceAll of every asset, in order
RewriteAll(text, assets) ==
  IF Len(assets) = 0 THEN text
  ELSE RewriteAll(replaceAll(text, assets[1].originalUrl, assets[1].relativePath),
                  Tail(assets))

\* lines 331-352: the job's assets have resolved; its entries are assembled
FinishJob ==
  /\ pc = "finishJob"
  /\ LET item     == articleResults[jobIdx]
         picked   == pickAssets(item.extracted.assets, options)
         okAssets == OkAssets(assetItems)
     IN  /\ tarEntries' = tarEntries
              \o [i \in 1..Len(okAssets) |->
                    [path |-> folder \o Str(<<"/">>) \o okAssets[i].relativePath,
                     content |-> okAssets[i].content]]
              \o <<[path |-> folder \o Str(<<"/", "i", "n", "d", "e", "x", ".", "m", "d">>),
                    content |-> [type |-> "index.md",
                                 text |-> RewriteAll(markdown, okAssets)]]>>
         /\ manifest' = RecordSucceeded(manifest,
                           [url |-> item.url, folder |-> folder, ok |-> TRUE,
                            images |-> Len(picked.images), files |-> Len(picked.files),
                            downloaded |-> Len(okAssets)])
  /\ jobIdx' = jobIdx + 1
  /\ pc' = "jobs"
  /\ UNCHANGED <<urls, options, site, status, articlePool, articleResults, folder,
                 markdown, usedPaths, assetItems, assetPool, totalBytes, archives, netLog>>
  /\ UNCHANGED <<budgetOmitted, trial>>

\* a faulty variant: the manifest is written and the archive encoded when the last
\* job has not been processed yet
FinalizeEarly ==
  /\ pc = "jobs"
  /\ jobIdx >= Len(articleResults)
  /\ LET entries == Append(tarEntries,
           [path |-> Str(<<"m", "a", "n", "i", "f", "e", "s", "t", ".", "j", "s", "o", "n">>),
            content |-> [type |-> "manifest.json", manifest |-> manifest]])
     IN  /\ tarEntries' = entries
         /\ archives' = Append(archives, entries)
  /\ status' = 200
  /\ pc' = "done"
  /\ UNCHANGED <<urls, options, site, articlePool, articleResults, jobIdx, folder,
                 markdown, usedPaths, assetItems, assetPool, totalBytes, manifest, netLog>>
  /\ UNCHANGED <<budgetOmitted, trial>>

\* lines 354-363: the manifest entry, the archive, the response
Finalize ==
  /\ pc = "jobs"
  /\ jobIdx > Len(articleResults)
  /\ LET entries == Append(tarEntries,
           [path |-> Str(<<"m", "a", "n", "i", "f", "e", "s", "t", ".", "j", "s", "o", "n">>),
            content |-> [type |-> "manifest.json", manifest |-> manifest]])
     IN  /\ tarEntries' = entries
         /\ archives' = Append(archives, entries)
  /\ status' = 200
  /\ pc' = "done"
  /\ UNCHANGED <<urls, options, site, articlePool, articleResults, jobIdx, folder,
                 markdown, usedPaths, assetItems, assetPool, totalBytes, manifest, netLog>>
  /\ UNCHANGED <<budgetOmitted, trial>>

(***************************************************************************)
(* Inputs: requests, pages and server behaviours the model explores        *)
(***************************************************************************)
MaxUrls == 3
MaxAssets == 4

HTTP == Str(<<"h", "t", "t", "p", ":", "/", "/">>)

\* asset URLs: A1 is a prefix of the others; A3 and A4 differ in the query only
A1 == HTTP \o Str(<<"h", "/", "a">>)
A2 == A1 \o Str(<<".", "p">>)
A3 == A1 \o Str(<<"?", "q">>)
A4 == A1 \o Str(<<"?", "r">>)

\* what extractArticleWithAssets returns for a page with these references
Page(url, title, images, files) ==
  [ok |-> TRUE,
   result |-> [title |-> title, url |-> url,
               content |-> Join(images \o files, Str(<<" ">>))],
   assets |-> [images |-> images, files |-> files]]
PageError == [ok |-> FALSE, error |-> Str(<<"e">>)]

\* the pages of the model's web: one that cannot be extracted, one whose two images
\* have URLs of which one is a prefix of the other, one whose two images differ in
\* the query only, one that shows and links the same URL (<a download><img>), one
\* without assets whose title is 51 characters outside ASCII
UrlE == HTTP \o Str(<<"e">>)
UrlP == HTTP \o Str(<<"p">>)
UrlQ == HTTP \o Str(<<"q">>)
UrlB == HTTP \o Str(<<"b">>)
UrlW == HTTP \o Str(<<"w">>)
JobUrls == {UrlE, UrlP, UrlQ, UrlB, UrlW}
LongTitle == [k \in 1..51 |-> Ch("U+4E2D")]

TheSite ==
  [u \in JobUrls |->
     CASE u = UrlE -> PageError
       [] u = UrlP -> Page(u, NoStr, <<A1, A2>>, <<>>)
       [] u = UrlQ -> Page(u, Str(<<"T">>), <<A3, A4>>, <<>>)
       [] u = UrlB -> Page(u, Str(<<"T">>), <<A1>>, <<A1>>)
       [] u = UrlW -> Page(u, LongTitle, <<>>, <<>>)]

AssetCount(s, u) ==
  IF s[u].ok THEN Len(s[u].assets.images) + Len(s[u].assets.files) ELSE 0

RECURSIVE TotalAssets(_, _)
TotalAssets(s, us) ==
  IF Len(us) = 0 THEN 0 ELSE AssetCount(s, us[1]) + TotalAssets(s, Tail(us))

RECURSIVE ListsUpTo(_, _)
\* the non-empty lists over set S of length at most n
ListsUpTo(S, n) ==
  IF n = 0 THEN {}
  ELSE {<<x>> : x \in S} \cup ListsUpTo(S, n - 1)
       \cup {Append(l, x) : l \in ListsUpTo(S, n - 1), x \in S}

InvalidRequests ==
  { <<>>,
    [i \in 1..(MAX_URLS + 1) |-> UrlE],
    <<UrlE, Str(<<"e">>)>>,
    <<Str(<<"f", "t", "p", ":", "/", "/", "e">>)>> }

\* requests for the page with the long title, alone and after a failing page
WideRequests == {<<UrlW>>, <<UrlE, UrlW>>}

Requests ==
  {us \in ListsUpTo(JobUrls \ {UrlW}, MaxUrls) : TotalAssets(TheSite, us) <= MaxAssets}
    \cup WideRequests \cup InvalidRequests

\* the options of a request: each kind of asset is downloaded or not
AllOptions == [downloadImages : BOOLEAN, downloadFiles : BOOLEAN]
\* the defaults (both kinds downloaded)
LoadOptions == {[downloadImages |-> TRUE, downloadFiles |-> TRUE]}

Responses ==
  { [ok |-> FALSE, contentType |-> "", cd |-> NoStr],
    [ok |-> TRUE, contentType |-> "text/html", cd |-> NoStr],
    [ok |-> TRUE, contentType |-> "image/png", cd |-> Str(<<"n">>)] }

BodySizes == {0, 1, MAX_ASSET_BYTES + 1}

\* every step of the handler and of its environment, the servers answering with
\* one of the responses Rs and sending bodies of one of the sizes Bs
NextWith(Rs, Bs) ==
  \/ Validate
  \/ \E i \in 1..MAX_URLS : ExtractionSettles(i)
  \/ JobFailed
  \/ JobStarts
  \/ \E i \in 1..Len(assetItems), resp \in Rs : FetchResolves(i, resp)
  \/ \E i \in 1..Len(assetItems) : FetchRejects(i)
  \/ \E i \in 1..Len(assetItems) : TimerFires(i)
  \/ \E i \in 1..Len(assetItems), len \in Bs : BodyResolves(i, len)
  \/ \E i \in 1..Len(assetItems) : BodyRejects(i)
  \/ \E i \in 1..Len(assetItems) : BodyStalls(i)
  \/ FinishJob
  \/ Finalize

Init == InitWith(Requests, AllOptions, {TheSite})
Next == NextWith(Responses, BodySizes)
Spec == Init /\ [][Next]_vars

(***************************************************************************)
(* A run under load: a page with more images than ASSET_CONCURRENCY, each  *)
(* as large as one asset may be, so that the pool's limit and the run's    *)
(* byte budget are both reached.                                           *)
(***************************************************************************)
LoadImages == ASSET_CONCURRENCY + 1
UrlL == HTTP \o Str(<<"l">>)
UrlO == HTTP \o Str(<<"o">>)
LoadImage(k) == HTTP \o Str(<<"h", "/">>) \o NumStr(k)
\* a page whose images differ in the fragment only, so that all get the same path
\* before deduplication: one more than the loop of dedupePath and its fallback serve
FloodImages == DedupeEnd + 1
UrlF == HTTP \o Str(<<"f">>)
FloodImage(k) == HTTP \o Str(<<"h", "/", "f", "#">>) \o NumStr(k)
\* a page whose images have the same path of 80 characters and differ in the query
\* only, as many as the flood page has
UrlG == HTTP \o Str(<<"g">>)
QueryImage(k) ==
  HTTP \o Str(<<"h", "/">>) \o [i \in 1..SEGMENT_MAX |-> Ch("n")] \o Str(<<"?">>) \o NumStr(k)
LoadSite ==
  [u \in {UrlE, UrlL, UrlO, UrlF, UrlG} |->
     CASE u = UrlE -> PageError
       [] u = UrlL -> Page(u, NoStr, [k \in 1..LoadImages |-> LoadImage(k)], <<>>)
       [] u = UrlO -> Page(u, NoStr, <<LoadImage(0)>>, <<>>)
       [] u = UrlF -> Page(u, NoStr, [k \in 1..FloodImages |-> FloodImage(k)], <<>>)
       [] u = UrlG -> Page(u, NoStr, [k \in 1..FloodImages |-> QueryImage(k)], <<>>)]
LoadRequests ==
  {<<UrlL>>, <<UrlO, UrlL>>, <<UrlL, UrlO>>, <<UrlO, UrlO>>, <<UrlF>>, <<UrlG>>,
   <<UrlE, UrlE, UrlE>>}
LoadResponses == {[ok |-> TRUE, contentType |-> "image/png", cd |-> NoStr]}
LoadSizes == {MAX_ASSET_BYTES}

InitLoad == InitWith(LoadRequests, LoadOptions, {LoadSite})
\* the servers answer (or are too slow for the timer) and the bodies arrive
NextLoad ==
  \/ Validate
  \/ \E i \in 1..MAX_URLS : ExtractionSettles(i)
  \/ JobFailed
  \/ JobStarts
  \/ \E i \in 1..Len(assetItems), resp \in LoadResponses : FetchResolves(i, resp)
  \/ \E i \in 1..Len(assetItems) : TimerFires(i)
  \/ \E i \in 1..Len(assetItems), len \in LoadSizes : BodyResolves(i, len)
  \/ FinishJob
  \/ Finalize
SpecLoad == InitLoad /\ [][NextLoad]_vars

(***************************************************************************)
(* mapLimit on its own: any list length and any limit, fn settling in any  *)
(* order, fulfilling or rejecting.                                         *)
(***************************************************************************)
MaxItems == 4
MaxLimit == 3

\* the handler's variables while a single function is applied
HandlerIdle ==
  /\ urls = <<>>
  /\ options = [downloadImages |-> TRUE, downloadFiles |-> TRUE]
  /\ site = <<>>
  /\ status = 0
  /\ articlePool = None
  /\ articleResults = <<>>
  /\ jobIdx = 0
  /\ folder = NoStr
  /\ markdown = NoStr
  /\ usedPaths = {}
  /\ assetItems = <<>>
  /\ assetPool = None
  /\ totalBytes = 0
  /\ tarEntries = <<>>
  /\ manifest = None
  /\ archives = <<>>
  /\ netLog = <<>>
  /\ budgetOmitted = 0

handlerVars == <<urls, options, site, status, articlePool, articleResults, jobIdx, folder,
                 markdown, usedPaths, assetItems, assetPool, totalBytes, tarEntries,
                 manifest, archives, netLog, budgetOmitted>>

InitMapLimit ==
  /\ HandlerIdle
  /\ pc = "mapLimit"
  /\ \E n \in 0..MaxItems, limit \in 0..MaxLimit :
       trial = [limit |-> limit, rejects |-> FALSE, pool |-> MLNew(n, limit)]

\* fn(items[i]) fulfils
FnFulfils(i) ==
  /\ pc = "mapLimit"
  /\ i \in MLRunning(trial.pool)
  /\ trial' = [trial EXCEPT !.pool = MLFulfil(trial.pool, i)]
  /\ UNCHANGED <<pc, handlerVars>>

\* fn(items[i]) rejects
FnRejects(i) ==
  /\ pc = "mapLimit"
  /\ i \in MLRunning(trial.pool)
  /\ trial' = [trial EXCEPT !.pool = MLReject(trial.pool, i), !.rejects = TRUE]
  /\ UNCHANGED <<pc, handlerVars>>

NextMapLimit ==
  \/ \E i \in 1..MaxItems : FnFulfils(i)
  \/ \E i \in 1..MaxItems : FnRejects(i)

SpecMapLimit == InitMapLimit /\ [][NextMapLimit]_vars

(***************************************************************************)
(* dedupePath on its own: a list of paths is passed through it, one call   *)
(* after the other, with one shared set.                                   *)
(***************************************************************************)
MaxDedupeList == 3
\* how many calls one step of the specification makes
DedupeBatch == 10

PathAB == Str(<<"a", ".", "b">>)
DedupePaths == {PathAB, Str(<<"a", "_", "2", ".", "b">>), Str(<<"a">>),
                Str(<<"c", ".", "d", "/", "e">>)}

\* short lists of any paths, and one path repeated once more than the loop of
\* line 108 has numeric suffixes and the fallback together
DedupeInputs ==
  ListsUpTo(DedupePaths, MaxDedupeList) \cup {[k \in 1..(DEDUPE_END + 1) |-> PathAB]}

RECURSIVE DedupeAll(_, _, _, _)
\* the calls on paths[lo..hi], in order, after the calls that gave acc (the paths
\* returned so far and the shared set)
DedupeAll(paths, lo, hi, acc) ==
  IF lo > hi THEN acc
  ELSE LET r == dedupePathUpTo(paths[lo], acc.used, DEDUPE_END)
       IN  DedupeAll(paths, lo + 1, hi,
                     [returned |-> Append(acc.returned, r), used |-> acc.used \cup {r}])

InitDedupe ==
  /\ HandlerIdle
  /\ pc = "dedupePath"
  /\ \E l \in DedupeInputs : trial = [input |-> l, returned |-> <<>>, used |-> {}]

\* the next calls of the list
DedupeCalls ==
  /\ pc = "dedupePath"
  /\ Len(trial.returned) < Len(trial.input)
  /\ LET lo  == Len(trial.returned) + 1
         hi  == Min(Len(trial.input), Len(trial.returned) + DedupeBatch)
         out == DedupeAll(trial.input, lo, hi,
                          [returned |-> trial.returned, used |-> trial.used])
     IN  trial' = [input |-> trial.input, returned |-> out.returned, used |-> out.used]
  /\ UNCHANGED <<pc, handlerVars>>

NextDedupe == DedupeCalls

SpecDedupe == InitDedupe /\ [][NextDedupe]_vars

(***************************************************************************)
(* The claims                                                              *)
(***************************************************************************)
RECURSIVE SumLengths(_)
SumLengths(assets) ==
  IF Len(assets) = 0 THEN 0 ELSE assets[1].content.length + SumLengths(Tail(assets))

\* the asset entries of the jobs already assembled
AssetEntries == SelectSeq(tarEntries, LAMBDA e : e.content.type = "bytes")

\* the current job's assets are not yet among the entries
JobOutstanding == pc \in {"assets", "finishJob"} \/ (pc = "done" /\ status = 400)

\* the content sizes of all assets accepted so far in the run
AcceptedBytes ==
  SumLengths(AssetEntries) + (IF JobOutstanding THEN SumLengths(OkAssets(assetItems)) ELSE 0)

\* C1: the counter total.bytes is the sum of the sizes of the assets accepted so far
\* in the run, and it never exceeds MAX_TOTAL_ASSET_BYTES, whatever the order in
\* which the concurrent downloads complete
C1_BudgetNeverExceeded ==
  /\ totalBytes <= MAX_TOTAL_ASSET_BYTES
  /\ AcceptedBytes = totalBytes

\* C1 happens: the budget is used up to the last byte and an asset was omitted
\* because it did not fit
C1_BudgetReached == budgetOmitted > 0 /\ totalBytes = MAX_TOTAL_ASSET_BYTES

\* C2 as the spec states it: a request that passed validation is answered with
\* status 200 and one archive, whatever happened to its jobs and assets
C2_ValidRequestGetsArchive ==
  (pc = "done" /\ ValidRequest(urls)) => (status = 200 /\ Len(archives) = 1)

\* the downloadAsset calls that have not returned
InFlight ==
  {i \in 1..Len(assetItems) : assetItems[i].st \in {"fetching", "reading", "stalled"}}

\* C3 as the spec states it: at every stage of a downloadAsset call that has not
\* returned (waiting for the response, reading the body) its abort timer is armed,
\* so that a hang ends when the timer fires
C3_TimerCoversEveryStage == \A i \in InFlight : assetItems[i].timer

\* C4: when fn never rejects, mapLimit calls fn at most once on every item, on no
\* item it has not claimed, and on every item exactly once by the time it resolves
C4_EveryItemOnce ==
  (pc = "mapLimit" /\ ~trial.rejects) =>
    LET pool == trial.pool
    IN  /\ pool.settled # "rejected"
        /\ \A i \in 1..pool.n :
             /\ pool.calls[i] <= 1
             /\ pool.calls[i] = 1 <=> pool.st[i] # "todo"
        /\ pool.settled = "fulfilled" =>
             \A i \in 1..pool.n : pool.calls[i] = 1 /\ pool.st[i] = "done"

\* C4 happens: a list longer than the limit was worked off by several workers
C4_ListWorkedOff ==
  /\ pc = "mapLimit"
  /\ ~trial.rejects
  /\ trial.limit >= 2
  /\ trial.pool.n > trial.limit
  /\ trial.pool.settled = "fulfilled"

\* C5: at most ARTICLE_CONCURRENCY extractions and at most ASSET_CONCURRENCY
\* downloadAsset calls are in flight at any instant, however long the lists are
C5_InFlightWithinLimit ==
  /\ Cardinality(MLRunning(articlePool)) <= ARTICLE_CONCURRENCY
  /\ Cardinality(InFlight) <= ASSET_CONCURRENCY

\* C5 happens: the asset pool is at its limit while an item still waits
C5_PoolSaturated ==
  /\ Cardinality(InFlight) = ASSET_CONCURRENCY
  /\ \E i \in 1..Len(assetItems) : assetItems[i].st = "todo"

\* C6 as the spec states it: no two fetches of a run are for the same asset URL
C6_NoUrlFetchedTwice ==
  \A j, k \in 1..Len(netLog) : j # k => netLog[j].url # netLog[k].url

\* C6, amended: no fetch is repeated; every asset reference (a URL in the image list
\* or in the file list of a job) is fetched at most once, whatever its outcome
C6_NoReferenceFetchedTwice ==
  \A j, k \in 1..Len(netLog) : j # k => netLog[j] # netLog[k]

\* C6 happens: a URL was fetched for two references, and the first fetch failed
\* without being repeated for its own reference
C6_SameUrlTwoReferences ==
  \E j, k \in 1..Len(netLog) :
    /\ j < k
    /\ netLog[j].url = netLog[k].url
    /\ netLog[j].job = netLog[k].job
    /\ netLog[j].kind # netLog[k].kind
    /\ \E i \in 1..Len(assetItems) :
         /\ assetItems[i].kind = netLog[j].kind
         /\ assetItems[i].url = netLog[j].url
         /\ assetItems[i].st = "done"
         /\ assetItems[i].result = None

\* C7 as the spec states it: all the paths a sequence of dedupePath calls with one
\* shared set returned are pairwise distinct
C7_ReturnedPathsDistinct ==
  pc = "dedupePath" =>
    Cardinality({trial.returned[k] : k \in 1..Len(trial.returned)}) = Len(trial.returned)

\* C8 as the spec states it: the paths of the entries handed to createTarGz are
\* pairwise distinct
C8_EntryPathsDistinct ==
  \A a \in 1..Len(archives) :
    Cardinality({archives[a][k].path : k \in 1..Len(archives[a])}) = Len(archives[a])

\* the article folder of an entry and its path below that folder
EntryFolder(e) == Take(e.path, IndexOf(e.path, Ch("/")) - 1)
EntryRelativePath(e) == Drop(e.path, IndexOf(e.path, Ch("/")))

\* the path is what the fallback of dedupePath (line 116) returns for some path
IsFallback(p) ==
  \E k \in 1..Len(p) : p[k].c = "hex" /\ DedupeFallback(p[k].sha256) = p

JobJustFinished ==
  /\ pc = "jobs"
  /\ jobIdx > 1
  /\ articleResults[jobIdx - 1].ok

\* the words of a text: what spaces and line ends delimit
Words(text) ==
  SplitChar([k \in 1..Len(text) |-> IF text[k] = Ch("\n") THEN Ch(" ") ELSE text[k]], Ch(" "))

\* C10 as the spec states it: in the index.md of a job whose downloaded assets have
\* pairwise different URLs, wherever a word of the original text was the originalUrl
\* of a downloaded asset, there is that asset's relativePath
C10_ReferencesRewritten ==
  JobJustFinished =>
    LET assets == OkAssets(assetItems)
        before == Words(markdown)
        after  == Words(tarEntries[Len(tarEntries)].content.text)
    IN  (\A j, k \in 1..Len(assets) : j # k => assets[j].originalUrl # assets[k].originalUrl)
          => \A w \in 1..Len(before), k \in 1..Len(assets) :
               before[w] = assets[k].originalUrl
                 => w <= Len(after) /\ after[w] = assets[k].relativePath

\* C11 as the spec states it: in the index.md of a job, wherever a word of the
\* original text was the URL of an asset that was not downloaded (and that no
\* downloaded asset of the job has as its originalUrl), the word is still there
C11_FailedReferencesUntouched ==
  JobJustFinished =>
    LET assets == OkAssets(assetItems)
        before == Words(markdown)
        after  == Words(tarEntries[Len(tarEntries)].content.text)
    IN  \A w \in 1..Len(before), i \in 1..Len(assetItems) :
          (/\ assetItems[i].result = None
           /\ before[w] = assetItems[i].url
           /\ \A k \in 1..Len(assets) : assets[k].originalUrl # assetItems[i].url)
            => w <= Len(after) /\ after[w] = before[w]

\* what every server of the run under load answers, and the size of every body
LoadResponse == CHOOSE r \in LoadResponses : TRUE
LoadSize == CHOOSE n \in LoadSizes : TRUE

RECURSIVE AssetsInOrder(_, _, _, _, _)
\* the assets of a job whose downloadAsset calls complete in index order, from item
\* k on, with the job's set, the run's counter and the assets kept so far
AssetsInOrder(items, k, used, total, kept) ==
  IF k > Len(items) THEN [assets |-> kept, total |-> total]
  ELSE IF ResponseAccepted(items[k].kind, LoadResponse) /\ BodyAccepted(total, LoadSize)
  THEN LET path == dedupePath(AssetPath(items[k].url, items[k].kind,
                                        LoadResponse.contentType, LoadResponse.cd), used)
       IN  AssetsInOrder(items, k + 1, used \cup {path}, total + LoadSize,
             Append(kept, [originalUrl |-> items[k].url, relativePath |-> path,
                           content |-> [type |-> "bytes", of |-> items[k].url,
                                        length |-> LoadSize]]))
  ELSE AssetsInOrder(items, k + 1, used, total, kept)

RECURSIVE EntriesInOrder(_, _, _, _)
\* the entries of jobs j.. of the request when every pool completes in index order
EntriesInOrder(us, j, total, entries) ==
  IF j > Len(us) THEN entries
  ELSE IF ~site[us[j]].ok
  THEN EntriesInOrder(us, j + 1, total,
         Append(entries,
                [path |-> safeArticleFolder(us[j], NoStr, j - 1)
                            \o Str(<<"/", "e", "r", "r", "o", "r", ".", "m", "d">>),
                 content |-> [type |-> "error.md", url |-> us[j],
                              error |-> site[us[j]].error]]))
  ELSE LET ex     == site[us[j]]
           picked == pickAssets(ex.assets, options)
           items  == [i \in 1..Len(picked.images) |-> NewItem("images", picked.images[i])]
                     \o [i \in 1..Len(picked.files) |-> NewItem("files", picked.files[i])]
           got    == AssetsInOrder(items, 1, {}, total, <<>>)
           f      == safeArticleFolder(us[j], ex.result.title, j - 1)
       IN  EntriesInOrder(us, j + 1, got.total,
             entries
               \o [i \in 1..Len(got.assets) |->
                     [path |-> f \o Str(<<"/">>) \o got.assets[i].relativePath,
                      content |-> got.assets[i].content]]
               \o <<[path |-> f \o Str(<<"/", "i", "n", "d", "e", "x", ".", "m", "d">>),
                     content |-> [type |-> "index.md",
                                  text |-> RewriteAll(buildArticleMarkdown(ex.result),
                                                      got.assets)]]>>)

RECURSIVE SumDownloaded(_)
SumDownloaded(results) ==
  IF Len(results) = 0 THEN 0
  ELSE (IF results[1].ok THEN results[1].downloaded ELSE 0) + SumDownloaded(Tail(results))

\* the run ended with an archive and none of its fetches failed: every asset that
\* is not in the archive was turned down by the byte budget
RunWithoutFetchFailure ==
  /\ pc = "done"
  /\ status = 200
  /\ Len(netLog) - SumDownloaded(manifest.results) = budgetOmitted

\* C12 as the spec states it: the archive of a run in which every server answered
\* is the same whatever order the fetches completed in; in particular its entries
\* before manifest.json are those of the run whose fetches complete in index order
C12_ArchiveIndependentOfOrder ==
  RunWithoutFetchFailure =>
    SubSeq(archives[1], 1, Len(archives[1]) - 1) = EntriesInOrder(urls, 1, 0, <<>>)

(***************************************************************************)
(* The archive encoder (lib/tar.ts).  Paths are ASCII here, so a string's  *)
(* byte length is its length.  The output of createTar is the sequence of  *)
(* its parts: a header block per entry, the padded content after a file's  *)
(* header, and the end of the archive.                                     *)
(***************************************************************************)
TAR_NAME_MAX == 100
TAR_PREFIX_MAX == 155
TAR_HASH_LEN == 16
TAR_BLOCK == 512
TAR_END == 1024
DIR_MODE == 493    \* 0o755
FILE_MODE == 420   \* 0o644

\* the printable ASCII characters in code order, from the space (code 32) on (the
\* grave accent, code 96, by its name)
Printable ==
  <<" ", "!", "\"", "#", "$", "%", "&", "'", "(", ")", "*", "+", ",", "-", ".", "/",
    "0", "1", "2", "3", "4", "5", "6", "7", "8", "9", ":", ";", "<", "=", ">", "?",
    "@", "A", "B", "C", "D", "E", "F", "G", "H", "I", "J", "K", "L", "M", "N", "O",
    "P", "Q", "R", "S", "T", "U", "V", "W", "X", "Y", "Z", "[", "\\", "]", "^", "_",
    "grave", "a", "b", "c", "d", "e", "f", "g", "h", "i", "j", "k", "l", "m", "n", "o",
    "p", "q", "r", "s", "t", "u", "v", "w", "x", "y", "z", "{", "|", "}", "~">>

\* a character outside ASCII: U+4E2D, one UTF-16 code unit, three bytes of UTF-8
CJK == Ch("U+4E2D")

\* the code unit of a printable character or of U+4E2D (0 for any other)
CharCode(ch) ==
  IF \E k \in 1..Len(Printable) : Printable[k] = ch.c
  THEN 31 + (CHOOSE k \in 1..Len(Printable) : Printable[k] = ch.c)
  ELSE IF ch = CJK THEN 20013 ELSE 0

\* Buffer.byteLength(str): the length of the string's UTF-8 encoding, one byte
\* for a character of ASCII and three for U+4E2D
byteLength(str) ==
  Len(str) + 2 * Cardinality({k \in 1..Len(str) : str[k] = CJK})

\* buffer.write(str, ..., 'ascii'): one byte per code unit, its low eight bits
\* (0x4E2D & 0xFF = 0x2D, the hyphen)
AsciiBytes(str) ==
  [k \in 1..Len(str) |-> IF str[k] = CJK THEN Ch("-") ELSE str[k]]

\* a < b in the order of Array.prototype.sort() without a comparator
StrLess(a, b) ==
  LET n    == Min(Len(a), Len(b))
      diff == {i \in 1..n : a[i] # b[i]}
  IN  IF diff = {} THEN Len(a) < Len(b)
      ELSE LET i == CHOOSE k \in diff : \A j \in diff : k <= j
           IN  CharCode(a[i]) < CharCode(b[i])

RECURSIVE SortStrings(_)
\* Array.from(set).sort()
SortStrings(S) ==
  IF S = {} THEN <<>>
  ELSE LET least == CHOOSE x \in S : \A y \in S \ {x} : StrLess(x, y)
       IN  <<least>> \o SortStrings(S \ {least})

\* path.replace(/\\/g, '/').replace(/^\/+/, '')
toPosixPath(path) ==
  LET slashed == [k \in 1..Len(path) |-> IF path[k] = Ch("\\") THEN Ch("/") ELSE path[k]]
      others  == {k \in 1..Len(slashed) : slashed[k] # Ch("/")}
  IN  IF others = {} THEN <<>>
      ELSE Drop(slashed, (CHOOSE k \in others : \A j \in others : k <= j) - 1)

ensureTrailingSlash(path) ==
  IF Len(path) > 0 /\ path[Len(path)] = Ch("/") THEN path ELSE path \o Str(<<"/">>)

\* the first 16 hex digits of the SHA-256 of the path
TarHash(normalized) ==
  [i \in 1..TAR_HASH_LEN |-> [c |-> "hex", sha256 |-> normalized, digit |-> i]]

splitTarPath(path) ==
  LET normalized == toPosixPath(path)
      idx        == LastIndexOf(normalized, Ch("/")) - 1     \* the JavaScript index
      prefix     == Take(normalized, idx)
      name       == Drop(normalized, idx + 1)
  IN  IF byteLength(normalized) <= TAR_NAME_MAX THEN [name |-> normalized, prefix |-> <<>>]
      ELSE IF idx > 0 /\ byteLength(name) <= TAR_NAME_MAX
                      /\ byteLength(prefix) <= TAR_PREFIX_MAX
      THEN [name |-> name, prefix |-> prefix]
      ELSE [name |-> Str(<<"p", "a", "t", "h", "_">>) \o TarHash(normalized),
            prefix |-> <<>>]

\* the fields of the 512-byte header block that depend on the entry
createHeader(path, size, mode, typeflag) ==
  LET split == splitTarPath(path)
  IN  [part |-> "header", name |-> AsciiBytes(Take(split.name, TAR_NAME_MAX)),
       prefix |-> AsciiBytes(Take(split.prefix, TAR_PREFIX_MAX)), size |-> size, mode |-> mode,
       typeflag |-> typeflag, length |-> TAR_BLOCK]

\* a faulty variant: a block of padding is added to an aligned buffer too
padTo512Always(length) == length + (TAR_BLOCK - (length % TAR_BLOCK))

\* the length of padTo512(buffer) for a buffer of this length
padTo512(length) ==
  IF length % TAR_BLOCK = 0 THEN length ELSE length + (TAR_BLOCK - (length % TAR_BLOCK))

\* the ancestor directories of one path, each with its trailing slash
ParentDirs(p) ==
  LET parts == FilterNonEmpty(SplitChar(toPosixPath(p), Ch("/")))
  IN  {ensureTrailingSlash(Join(SubSeq(parts, 1, i), Str(<<"/">>))) :
         i \in 1..(Len(parts) - 1)}

addParentDirs(paths) ==
  LET dirs   == UNION {ParentDirs(paths[k]) : k \in 1..Len(paths)}
      sorted == SortStrings(dirs)
  IN  [k \in 1..Len(sorted) |-> [type |-> "dir", path |-> sorted[k]]]

RECURSIVE TarParts(_)
\* lines 126-140: the parts pushed for the entries, in order
TarParts(all) ==
  IF Len(all) = 0 THEN <<>>
  ELSE LET entry == all[1]
       IN  (IF entry.type = "dir"
            THEN <<createHeader(ensureTrailingSlash(entry.path), 0, DIR_MODE, "5")>>
            ELSE <<createHeader(entry.path, entry.size, FILE_MODE, "0"),
                   [part |-> "content", of |-> entry.content, size |-> entry.size,
                    length |-> padTo512(entry.size)]>>)
           \o TarParts(Tail(all))

createTar(entries) ==
  LET normalizedEntries ==
        SelectSeq([k \in 1..Len(entries) |->
                     [entries[k] EXCEPT !.path = toPosixPath(entries[k].path)]],
                  LAMBDA e : Len(e.path) > 0)
      filePaths  == [k \in 1..Len(normalizedEntries) |-> normalizedEntries[k].path]
      dirEntries == addParentDirs(filePaths)
  IN  TarParts(dirEntries \o normalizedEntries) \o <<[part |-> "end", length |-> TAR_END]>>

(***************************************************************************)
(* createTar on its own: entry lists with short and long paths, files of   *)
(* several sizes and directories the caller supplies.                      *)
(***************************************************************************)
MaxTarEntries == 2

Rep(ch, n) == [k \in 1..n |-> Ch(ch)]
TarFile(path, size) == [type |-> "file", path |-> path, size |-> size, content |-> path]
TarDir(path) == [type |-> "dir", path |-> path]

\* a long path whose last '/' leaves a prefix of more than 155 bytes, while its
\* first '/' leaves a prefix of 150 bytes and a name of 12
PathDeep == Rep("x", TAR_PREFIX_MAX - 5) \o Str(<<"/">>) \o Rep("y", 10) \o Str(<<"/", "z">>)

TarEntries ==
  { TarFile(Str(<<"a", "/", "b">>), 1),
    TarFile(Str(<<"a", "/", "c", "/", "d">>), 0),
    TarFile(Str(<<"e">>), TAR_BLOCK),
    TarFile(Str(<<"/", "a", "\\", "f">>), TAR_BLOCK + 1),
    TarFile(Rep("n", TAR_NAME_MAX), 1),
    TarFile(Rep("n", TAR_NAME_MAX + 1), 1),
    TarFile(Rep("x", TAR_PREFIX_MAX) \o Str(<<"/", "f">>), 1),
    TarFile(Rep("x", TAR_PREFIX_MAX + 1) \o Str(<<"/", "f">>), 1),
    TarFile(Rep("x", 50) \o Str(<<"/">>) \o Rep("n", TAR_NAME_MAX + 1), 1),
    TarFile(PathDeep, 1),
    TarDir(Str(<<"a", "/">>)),
    TarDir(Str(<<"g">>)) }

InitTar ==
  /\ HandlerIdle
  /\ pc = "createTar"
  /\ \E l \in ListsUpTo(TarEntries, MaxTarEntries) :
       trial = [entries |-> l, ran |-> FALSE, tar |-> <<>>]

\* createTar(entries)
TarEncode ==
  /\ pc = "createTar"
  /\ ~trial.ran
  /\ trial' = [trial EXCEPT !.ran = TRUE, !.tar = createTar(trial.entries)]
  /\ UNCHANGED <<pc, handlerVars>>

NextTar == TarEncode

SpecTar == InitTar /\ [][NextTar]_vars

\* what a ustar reader takes as the path of a header: prefix + '/' + name when the
\* prefix field is not empty, else name
HeaderPath(h) == IF Len(h.prefix) > 0 THEN h.prefix \o Str(<<"/">>) \o h.name ELSE h.name

\* what a ustar reader gets from the parts: the files, each with the content that
\* follows its header, and the directories
DecodedFiles(tar) ==
  {[path |-> HeaderPath(tar[k]), size |-> tar[k].size, content |-> tar[k + 1].of] :
     k \in {i \in 1..(Len(tar) - 1) : tar[i].part = "header" /\ tar[i].typeflag = "0"}}
DecodedDirs(tar) ==
  {HeaderPath(tar[k]) : k \in {i \in 1..Len(tar) : tar[i].part = "header"
                                                    /\ tar[i].typeflag = "5"}}

\* the files of an entry list, and the directories above them
InputFiles(entries) ==
  {[path |-> entries[k].path, size |-> entries[k].size, content |-> entries[k].content] :
     k \in {i \in 1..Len(entries) : entries[i].type = "file"}}

\* the ancestor directories of a normalized path, as a reader names them
Ancestors(path) == {Take(path, i) : i \in {k \in 1..(Len(path) - 1) : path[k] = Ch("/")}}

\* C13 as the spec states it: a ustar reader gets from createTar's output exactly
\* the input files, each under its (normalized) path with its content, and a
\* directory for every ancestor directory of every file
C13_TarRoundTrip ==
  (pc = "createTar" /\ trial.ran) =>
    LET files == InputFiles(trial.entries)
    IN  /\ DecodedFiles(trial.tar)
             = {[f EXCEPT !.path = toPosixPath(f.path)] : f \in files}
        /\ \A f \in files : Ancestors(toPosixPath(f.path)) \subseteq DecodedDirs(trial.tar)

\* some '/' of the path splits it into a prefix of at most 155 bytes and a name of
\* at most 100 bytes
SplitsCleanly(path) ==
  \E i \in 2..(Len(path) - 1) :
    /\ path[i] = Ch("/")
    /\ i - 1 <= TAR_PREFIX_MAX
    /\ Len(path) - i <= TAR_NAME_MAX

\* C14 as the spec states it: for an entry whose path is longer than 100 bytes and
\* splits cleanly at some '/', splitTarPath returns a prefix and a name that
\* recombine to the path
C14_CleanSplitUsed ==
  (pc = "createTar" /\ trial.ran) =>
    \A k \in 1..Len(trial.entries) :
      LET path == toPosixPath(trial.entries[k].path)
      IN  (Len(path) > TAR_NAME_MAX /\ SplitsCleanly(path))
            => LET split == splitTarPath(path)
               IN  /\ Len(split.prefix) > 0
                   /\ split.prefix \o Str(<<"/">>) \o split.name = path

\* the manifests written to manifest.json (one per archive)
WrittenManifests ==
  {archives[a][Len(archives[a])].content.manifest : a \in 1..Len(archives)}

\* the positions of the request whose extraction fails
FailingPositions == {i \in 1..Len(urls) : ~site[urls[i]].ok}

\* C15: the manifest written to manifest.json has total = n, failed = the number of
\* URLs whose extraction failed, success = the number of the others, and one
\* record per URL
C15_ManifestCounts ==
  \A m \in WrittenManifests :
    /\ m.total = Len(urls)
    /\ m.failed = Cardinality(FailingPositions)
    /\ m.success = Len(urls) - Cardinality(FailingPositions)
    /\ Len(m.results) = Len(urls)

\* C15 happens: a manifest was written for three URLs of which some failed and
\* some did not
C15_MixedRunWritten ==
  /\ WrittenManifests # {}
  /\ Len(urls) = 3
  /\ FailingPositions # {}
  /\ FailingPositions # 1..Len(urls)

\* the entries of an archive that lie in a folder, and the top-level folders
FolderEntries(entries) ==
  SelectSeq(entries, LAMBDA e : IndexOf(e.path, Ch("/")) > 0)
TopLevelFolders(entries) ==
  {EntryFolder(FolderEntries(entries)[k]) : k \in 1..Len(FolderEntries(entries))}

\* the entries of an archive in folder f, and those of them of one content type
EntriesIn(entries, f) ==
  SelectSeq(FolderEntries(entries), LAMBDA e : EntryFolder(e) = f)
EntriesOfType(entries, f, type) ==
  SelectSeq(EntriesIn(entries, f), LAMBDA e : e.content.type = type)

\* the entry list handed to createTarGz names exactly one top-level folder per
\* requested URL; the folder of a job whose extraction failed holds one entry,
\* error.md, and no fetch was issued for that job; the folder of a job whose
\* extraction succeeded holds exactly one index.md (and no error.md)
EntriesOneFolderPerUrl ==
  \A a \in 1..Len(archives) :
    LET entries == archives[a]
        results == entries[Len(entries)].content.manifest.results
    IN  /\ Cardinality(TopLevelFolders(entries)) = Len(urls)
        /\ TopLevelFolders(entries) = {results[i].folder : i \in 1..Len(results)}
        /\ \A i \in 1..Len(urls) :
             LET f == results[i].folder
             IN  IF site[urls[i]].ok
                 THEN /\ Len(EntriesOfType(entries, f, "index.md")) = 1
                      /\ EntriesOfType(entries, f, "index.md")[1].path
                           = f \o Str(<<"/", "i", "n", "d", "e", "x", ".", "m", "d">>)
                      /\ Len(EntriesOfType(entries, f, "error.md")) = 0
                 ELSE /\ Len(EntriesIn(entries, f)) = 1
                      /\ EntriesIn(entries, f)[1].content.type = "error.md"
                      /\ EntriesIn(entries, f)[1].path
                           = f \o Str(<<"/", "e", "r", "r", "o", "r", ".", "m", "d">>)
                      /\ \A k \in 1..Len(netLog) : netLog[k].job # i

\* lines 360-363: the tar the response carries for an archive (gzip loses nothing);
\* a document's size is the byte length of its text where the model has the text
AsTarEntry(e) ==
  [type |-> "file", path |-> e.path, content |-> e.content,
   size |-> IF e.content.type = "bytes" THEN e.content.length
            ELSE IF e.content.type = "index.md" THEN byteLength(e.content.text)
            ELSE 1]
ArchiveTar(a) == createTar([k \in 1..Len(archives[a]) |-> AsTarEntry(archives[a][k])])

\* the headers of a tar, the paths a reader gives its files, and its top-level
\* folders: the first segments of the paths that have more than one segment
TarHeaders(tar) == SelectSeq(tar, LAMBDA part : part.part = "header")
TarFilePaths(tar) ==
  {HeaderPath(TarHeaders(tar)[k]) :
     k \in {i \in 1..Len(TarHeaders(tar)) : TarHeaders(tar)[i].typeflag = "0"}}
TarTopLevel(tar) ==
  {Take(HeaderPath(TarHeaders(tar)[k]), IndexOf(HeaderPath(TarHeaders(tar)[k]), Ch("/")) - 1) :
     k \in {i \in 1..Len(TarHeaders(tar)) :
              IndexOf(HeaderPath(TarHeaders(tar)[i]), Ch("/")) > 0}}

\* the files a reader finds in folder f of a tar
TarFilesIn(tar, f) ==
  {p \in TarFilePaths(tar) : IndexOf(p, Ch("/")) > 0 /\ Take(p, IndexOf(p, Ch("/")) - 1) = f}

\* C16 as the spec states it: the archive has exactly one top-level folder per
\* requested URL; each folder holds either error.md and nothing else or exactly one
\* index.md; there are as many folders with error.md as failed extractions, and
\* no fetch is issued for a job whose extraction failed
C16_OneFolderPerUrl ==
  \A a \in 1..Len(archives) :
    LET tar     == ArchiveTar(a)
        errorMd(f) == f \o Str(<<"/", "e", "r", "r", "o", "r", ".", "m", "d">>)
        indexMd(f) == f \o Str(<<"/", "i", "n", "d", "e", "x", ".", "m", "d">>)
    IN  /\ Cardinality(TarTopLevel(tar)) = Len(urls)
        /\ \A f \in TarTopLevel(tar) :
             \/ TarFilesIn(tar, f) = {errorMd(f)}
             \/ indexMd(f) \in TarFilesIn(tar, f) /\ errorMd(f) \notin TarFilesIn(tar, f)
        /\ Cardinality({f \in TarTopLevel(tar) : errorMd(f) \in TarFilesIn(tar, f)})
             = Cardinality(FailingPositions)
        /\ \A k \in 1..Len(netLog) : netLog[k].job \notin FailingPositions

\* C17: whatever order the extractions complete in, the result of the extraction
\* at position i and the manifest record at position i describe urls[i], the
\* folder of record i starts with i (one-based) as three digits and an underscore,
\* and the folders of distinct records are distinct
C17_FoldersFollowInputOrder ==
  /\ \A i \in 1..Len(articleResults) :
       articleResults[i] # None =>
         articleResults[i].url = urls[i] /\ articleResults[i].index = i - 1
  /\ manifest # None =>
       LET results == manifest.results
       IN  /\ \A i \in 1..Len(results) :
                /\ results[i].url = urls[i]
                /\ Take(results[i].folder, 4)
                     = Str(<<"0", "0">>) \o NumStr(i) \o Str(<<"_">>)
           /\ \A i, j \in 1..Len(results) :
                i # j => results[i].folder # results[j].folder

\* C17 happens: an archive was written for three URLs whose first and third pages
\* have the same title (the second failed), the extractions having completed in
\* any of the orders the pool allows
C17_SameTitleTwice ==
  /\ Len(archives) = 1
  /\ Len(urls) = 3
  /\ FailingPositions = {2}
  /\ site[urls[1]].result.title = site[urls[3]].result.title
  /\ urls[1] # urls[3]
  /\ Len(manifest.results) = 3

\* the kinds the request opted out of
DisabledKinds ==
  {kind \in {"images", "files"} :
     IF kind = "images" THEN ~options.downloadImages ELSE ~options.downloadFiles}

\* the entry lies under assets/<kind>/ of its folder
UnderAssets(e, kind) ==
  /\ IndexOf(e.path, Ch("/")) > 0
  /\ StartsWithAt(EntryRelativePath(e),
                  Str(<<"a", "s", "s", "e", "t", "s", "/">>) \o KindName(kind) \o Str(<<"/">>), 1)

\* C18: no fetch is issued for an asset of a kind the request opted out of, none
\* is waiting in the pool, and no entry under assets/<kind>/ is produced or
\* appears in an archive
C18_DisabledKindsUntouched ==
  \A kind \in DisabledKinds :
    /\ \A k \in 1..Len(netLog) : netLog[k].kind # kind
    /\ \A k \in 1..Len(assetItems) : assetItems[k].kind # kind
    /\ \A k \in 1..Len(tarEntries) : ~UnderAssets(tarEntries[k], kind)
    /\ \A a \in 1..Len(archives) :
         \A k \in 1..Len(archives[a]) : ~UnderAssets(archives[a][k], kind)

\* C18 happens: with files disabled and images enabled, an archive was written
\* for the page that shows and links the same URL, its image downloaded
C18_FilesDisabledImageKept ==
  /\ DisabledKinds = {"files"}
  /\ urls = <<UrlB>>
  /\ Len(archives) = 1
  /\ \E k \in 1..Len(archives[1]) : UnderAssets(archives[1][k], "images")

\* C19: for a request that fails validation (no URL, more than MAX_URLS URLs, a
\* malformed URL, a protocol other than http and https) no extraction is started,
\* no fetch issued, no entry and no archive produced, and the response is an error
C19_InvalidRequestDoesNothing ==
  urls \in InvalidRequests =>
    /\ articlePool = None
    /\ articleResults = <<>>
    /\ assetPool = None
    /\ assetItems = <<>>
    /\ netLog = <<>>
    /\ tarEntries = <<>>
    /\ manifest = None
    /\ archives = <<>>
    /\ status \in {0, 400}
    /\ pc = "done" => status = 400

\* C19 happens: a request of more than MAX_URLS URLs has been answered
C19_TooManyUrlsAnswered ==
  /\ Len(urls) > MAX_URLS
  /\ pc = "done"
  /\ status = 400

\* the jobs whose extraction has succeeded and left assets to download
JobsWithAssets ==
  {i \in 1..Len(articleResults) :
     /\ articleResults[i] # None
     /\ articleResults[i].ok
     /\ Len(pickAssets(articleResults[i].extracted.assets, options).images)
          + Len(pickAssets(articleResults[i].extracted.assets, options).files) > 0}

\* the jobs for which a fetch has been issued
JobsFetched == {netLog[k].job : k \in 1..Len(netLog)}

ManifestPositions(entries) ==
  {k \in 1..Len(entries) : entries[k].content.type = "manifest.json"}

\* C21: the manifest.json entry is in the entry list only when every job has
\* reached its final state (a record for each URL, the handler past the last job);
\* it is then the last entry and the only one of its kind; createTarGz is invoked
\* at most once in a run, on the entry list as it is after that append
C21_ManifestLastEncodedOnce ==
  /\ Len(archives) <= 1
  /\ ManifestPositions(tarEntries) # {} =>
       /\ ManifestPositions(tarEntries) = {Len(tarEntries)}
       /\ tarEntries[Len(tarEntries)].content.manifest = manifest
       /\ Len(manifest.results) = Len(urls)
       /\ jobIdx = Len(urls) + 1
       /\ pc = "done"
       /\ archives = <<tarEntries>>
  /\ Len(archives) = 1 => ManifestPositions(tarEntries) # {} /\ status = 200

\* C21 happens: an archive was encoded for three URLs, of which some failed, with a
\* downloaded asset among the entries before the manifest
C21_ArchiveOfThreeEncoded ==
  /\ Len(archives) = 1
  /\ Len(urls) = 3
  /\ FailingPositions # {}
  /\ \E k \in 1..Len(tarEntries) : tarEntries[k].content.type = "bytes"

(***************************************************************************)
(* sanitizeSegment on its own: every string of up to MaxSegment characters *)
(* over an alphabet with the unsafe characters, whitespace, control        *)
(* characters and ordinary ones, and strings longer than the limit.        *)
(***************************************************************************)
MaxSegment == 2

\* control characters: NUL, the ones \s matches, U+0001 and DEL
ControlChars == {NulChar, Ch("\t"), Ch("\n"), Ch("\r"), Ch("U+0001"), Ch("U+007F")}

SegmentAlphabet ==
  UnsafeChars \cup WhitespaceChars \cup ControlChars \cup {Ch("a"), Ch("_"), CJK}

RECURSIVE StringsUpTo(_, _)
\* the strings over the characters S of length at most n
StringsUpTo(S, n) ==
  IF n = 0 THEN {<<>>}
  ELSE StringsUpTo(S, n - 1) \cup {Append(t, ch) : t \in StringsUpTo(S, n - 1), ch \in S}

\* strings at and over the limit: of ordinary characters, with an unsafe character
\* in front, of unsafe characters only, with whitespace around the limit
LongSegments ==
  { Rep("a", SEGMENT_MAX),
    Rep("a", SEGMENT_MAX + 1),
    Str(<<"/">>) \o Rep("a", SEGMENT_MAX),
    Rep("|", SEGMENT_MAX + 2),
    Str(<<" ", " ">>) \o Rep("a", SEGMENT_MAX - 1) \o Str(<<" ", "b">>),
    Rep("a", SEGMENT_MAX) \o Str(<<":">>) }

SegmentInputs == StringsUpTo(SegmentAlphabet, MaxSegment) \cup LongSegments

InitSanitize ==
  /\ HandlerIdle
  /\ pc = "sanitizeSegment"
  /\ \E t \in SegmentInputs : trial = [input |-> t, ran |-> FALSE, out |-> <<>>]

\* sanitizeSegment(input)
SanitizeRuns ==
  /\ pc = "sanitizeSegment"
  /\ ~trial.ran
  /\ trial' = [trial EXCEPT !.ran = TRUE, !.out = sanitizeSegment(trial.input)]
  /\ UNCHANGED <<pc, handlerVars>>

NextSanitize == SanitizeRuns

SpecSanitize == InitSanitize /\ [][NextSanitize]_vars

\* C22: the output of sanitizeSegment contains none of \ / : * ? " < > | and has
\* at most 80 characters
C22_SegmentSafeAndShort ==
  (pc = "sanitizeSegment" /\ trial.ran) =>
    /\ \A k \in 1..Len(trial.out) : trial.out[k] \notin UnsafeChars
    /\ Len(trial.out) <= SEGMENT_MAX

\* C22 happens: an input over the limit that starts with an unsafe character was
\* cut to the limit
C22_LongUnsafeInputCut ==
  /\ pc = "sanitizeSegment"
  /\ trial.ran
  /\ Len(trial.input) > SEGMENT_MAX
  /\ trial.input[1] \in UnsafeChars
  /\ Len(trial.out) = SEGMENT_MAX

\* C27 as the spec states it: the output of sanitizeSegment contains no control
\* character (none below U+0020, no U+007F)
C27_NoControlCharacter ==
  (pc = "sanitizeSegment" /\ trial.ran) =>
    \A k \in 1..Len(trial.out) : trial.out[k] \notin ControlChars

\* the two URLs are the same up to the '?' and differ after it
DifferInQueryOnly(u, v) ==
  /\ IndexOf(u, Ch("?")) > 0
  /\ IndexOf(u, Ch("?")) = IndexOf(v, Ch("?"))
  /\ Take(u, IndexOf(u, Ch("?"))) = Take(v, IndexOf(v, Ch("?")))
  /\ u # v

\* C23 as the spec states it: two downloaded images of one job whose URLs differ in
\* the query string only have distinct relativePaths
C23_QueryVariantsDistinct ==
  \A j, k \in 1..Len(AssetEntries) :
    (/\ EntryFolder(AssetEntries[j]) = EntryFolder(AssetEntries[k])
     /\ UnderAssets(AssetEntries[j], "images")
     /\ UnderAssets(AssetEntries[k], "images")
     /\ DifferInQueryOnly(AssetEntries[j].content.of, AssetEntries[k].content.of))
      => EntryRelativePath(AssetEntries[j]) # EntryRelativePath(AssetEntries[k])

\* the filename of a path (what follows its last '/'), the filename without its
\* extension, and the length of the directory part
DirLength(path) == LastIndexOf(path, Ch("/"))
FileStem(path) ==
  LET file == Drop(path, DirLength(path))
      dot  == LastIndexOf(file, Ch("."))
  IN  IF dot > 0 THEN Take(file, dot - 1) ELSE file

\* out is path with a suffix "_..." put in its filename before the extension (at
\* the end when the filename has none), the directory segments as they were
SuffixedInFilename(path, out) ==
  LET head == DirLength(path) + Len(FileStem(path))
      ext  == Drop(path, head)
  IN  /\ Len(out) > Len(path) + 1
      /\ Take(out, head) = Take(path, head)
      /\ out[head + 1] = Ch("_")
      /\ Drop(out, Len(out) - Len(ext)) = ext
      /\ DirLength(out) = DirLength(path)

\* C24 as the spec states it: a path that dedupePath returns changed differs from
\* the input inside the final segment only, by a suffix before the extension of
\* the filename
C24_SuffixInsideFilename ==
  pc = "dedupePath" =>
    \A k \in 1..Len(trial.returned) :
      trial.returned[k] # trial.input[k]
        => SuffixedInFilename(trial.input[k], trial.returned[k])

\* the paths of the directory headers of a tar, in order
DirHeaderPaths(tar) ==
  LET dirs == SelectSeq(tar, LAMBDA part : part.part = "header" /\ part.typeflag = "5")
  IN  [k \in 1..Len(dirs) |-> HeaderPath(dirs[k])]

\* C25 as the spec states it: createTar's output has exactly one directory header
\* for each ancestor directory of the input paths, and no two directory headers
\* with the same path, also when the caller supplies directory entries. It is
\* stated here for the lists of distinct entries all of whose paths fit the name
\* field, so that no header is renamed by the fallback of splitTarPath and no
\* directory is in the input twice.
C25_OneHeaderPerDirectory ==
  (/\ pc = "createTar"
   /\ trial.ran
   /\ \A e \in 1..Len(trial.entries) :
        byteLength(trial.entries[e].path) < TAR_NAME_MAX
   /\ \A e, f \in 1..Len(trial.entries) :
        e # f => trial.entries[e].path # trial.entries[f].path) =>
    LET paths == DirHeaderPaths(trial.tar)
    IN  /\ \A j, k \in 1..Len(paths) : j # k => paths[j] # paths[k]
        /\ \A e \in 1..Len(trial.entries) :
             \A d \in Ancestors(toPosixPath(trial.entries[e].path)) :
               Cardinality({k \in 1..Len(paths) : paths[k] = d}) = 1

RECURSIVE TarLength(_)
\* the length of Buffer.concat(parts)
TarLength(parts) ==
  IF Len(parts) = 0 THEN 0 ELSE parts[1].length + TarLength(Tail(parts))

RECURSIVE BlocksExpected(_)
\* what the headers of a tar announce: 512 bytes for a directory header, and for a
\* file header 512 bytes and its size rounded up to whole blocks of 512
BlocksExpected(headers) ==
  IF Len(headers) = 0 THEN 0
  ELSE (IF headers[1].typeflag = "5" THEN 512
        ELSE 512 + 512 * ((headers[1].size + 511) \div 512))
       + BlocksExpected(Tail(headers))

\* C26: the length of createTar's output is 512 for each directory header, 512 +
\* 512 * ceil(size / 512) for each file, and 1024 for the end, a multiple of 512;
\* an entry of empty content takes its header block only; the output ends with
\* the two zero blocks
C26_TarLength ==
  (pc = "createTar" /\ trial.ran) =>
    LET tar == trial.tar
    IN  /\ TarLength(tar) = BlocksExpected(TarHeaders(tar)) + 1024
        /\ TarLength(tar) % 512 = 0
        /\ \A k \in 1..Len(tar) :
             (tar[k].part = "header" /\ tar[k].typeflag = "0" /\ tar[k].size = 0)
               => tar[k + 1].part = "content" /\ tar[k + 1].length = 0
        /\ tar[Len(tar)] = [part |-> "end", length |-> 1024]
        /\ \A k \in 1..(Len(tar) - 1) : tar[k].part # "end"

\* C26 happens: a tar was made of an empty file and a file of one byte more than a
\* block, in directories
C26_EmptyAndOverBlockEncoded ==
  /\ pc = "createTar"
  /\ trial.ran
  /\ \E k \in 1..Len(trial.tar) :
       trial.tar[k].part = "header" /\ trial.tar[k].typeflag = "0" /\ trial.tar[k].size = 0
  /\ \E k \in 1..Len(trial.tar) :
       trial.tar[k].part = "content" /\ trial.tar[k].size = TAR_BLOCK + 1
  /\ DirHeaderPaths(trial.tar) # <<>>

\* the asset downloads of the current batch still waiting for a worker
BatchWaiting == {i \in 1..Len(assetItems) : assetItems[i].st = "todo"}

\* C28: a step that starts asset downloads is taken only when every extraction of
\* the request has finished, it starts downloads of the job the handler is at,
\* and if that job is not the one of the last download started before, every
\* download of the earlier batch has settled and none of it is waiting
C28_BatchesNeverOverlap ==
  [][Len(netLog') > Len(netLog) =>
       /\ articlePool # None
       /\ articlePool.settled = "fulfilled"
       /\ \A i \in 1..Len(articleResults) : articleResults[i] # None
       /\ \A k \in (Len(netLog) + 1)..Len(netLog') : netLog'[k].job = jobIdx'
       /\ (Len(netLog) > 0 /\ netLog[Len(netLog)].job # jobIdx') =>
            /\ netLog[Len(netLog)].job < jobIdx'
            /\ InFlight = {}
            /\ BatchWaiting = {}]_vars

\* C28 happens: the run is over with an archive, downloads having been started
\* for the first job, which had more than the pool takes at once, and then for
\* the second
C28_TwoBatchesDone ==
  /\ pc = "done"
  /\ status = 200
  /\ JobsFetched = {1, 2}
  /\ Cardinality({k \in 1..Len(netLog) : netLog[k].job = 1}) > ASSET_CONCURRENCY

\* C29 as the spec states it: once the promise mapLimit returned has settled,
\* fulfilled or rejected, no fn invocation of that call is pending and no further
\* one is started
C29_SettledPoolIsIdle ==
  [][(pc = "mapLimit" /\ trial.pool.settled # "pending") =>
       /\ MLRunning(trial.pool) = {}
       /\ trial'.pool.calls = trial.pool.calls]_vars

\* the downloadAsset calls that return in this step: with null, with an asset
ReturnsNull(i) ==
  /\ i \in InFlight
  /\ assetItems'[i].st = "done"
  /\ assetItems'[i].result = None
ReturnsAsset(i) ==
  /\ i \in InFlight
  /\ assetItems'[i].st = "done"
  /\ assetItems'[i].result # None

\* C30 as the spec states it: a downloadAsset call that returns null leaves
\* total.bytes and usedPaths as they were; a call that returns an asset adds
\* content.length to total.bytes and exactly one path, the asset's relativePath,
\* to usedPaths; no other step changes either, but for the start of a job, which
\* gives the job its own empty set
C30_CounterAndPathsFrame ==
  [][pc # "jobs" =>
       /\ \A i \in 1..Len(assetItems) :
            /\ ReturnsNull(i) => totalBytes' = totalBytes /\ usedPaths' = usedPaths
            /\ ReturnsAsset(i) =>
                 /\ totalBytes' = totalBytes + assetItems'[i].result.content.length
                 /\ usedPaths \subseteq usedPaths'
                 /\ Cardinality(usedPaths') = Cardinality(usedPaths) + 1
                 /\ assetItems'[i].result.relativePath \in usedPaths'
       /\ (\A i \in 1..Len(assetItems) : ~ReturnsAsset(i)) =>
            totalBytes' = totalBytes /\ usedPaths' = usedPaths]_vars

====
